---- MODULE Spec2Model ----
(***************************************************************************)
(* A model of the ETF_Quant data pipeline:                                 *)
(*   - github_storage.py : the read / merge / write of the remote CSV      *)
(*   - data_fetcher.py   : fetch_all_etf_data (two thread pools, progress) *)
(*                         and save_to_csv (the local cache file)          *)
(*   - update_data.py    : main                                            *)
(*   - app.py            : load_data, fetch_and_save_data                  *)
(*                                                                         *)
(* A row of the dataset is [date, code, val]: val stands for the rest of   *)
(* the columns (the indicator values computed by one run).  Dates are      *)
(* 1..NDates (the ISO date strings, which sort as the dates do), codes are *)
(* 1..NCodes in the universe order of ETF_CODES.                           *)
(***************************************************************************)
EXTENDS Integers, Sequences, FiniteSets, TLC

\* ------------------------------------------------------------------ bounds
NCodes == 2
NDates == 2
NVals == 1
NProcs == 2
MaxCalls == 3
Threads == 2
MaxPreempt == 1
ProgressUniverse == 51
Window == 3
MaxBars == 7
NClose == 3
MaxDay == 15
MaxDaily == 2
NPrice == 2
MaxRaw == 3
MaxSaves == 3

\* ------------------------------------------------------------------ program constants
ProgressEvery == 50
MaxWorkersDaily == 10
MaxWorkersFee == 8
DaysPerWeek == 7

Codes == 1..NCodes
Dates == 1..NDates
Vals == 1..NVals
Procs == 1..NProcs

VARIABLES
    \* ---- the remote store (one file of one GitHub repository)
    remote,     \* [exists, rows]: the CSV file; its blob sha is a function of its content
    \* ---- one caller of append_data_to_github per process
    pc,         \* position of each process in append_data_to_github / write_csv_to_github
    new_data,   \* the snapshot passed to the call
    combined,   \* the merged table (lines 157-167)
    sha,        \* what _get_file_sha returned: [some, rows]
    ok,         \* the call's return value
    sortKind,   \* how the library's sort orders rows of equal date
    \* ---- history (not program state)
    calls,      \* number of calls started so far
    before,     \* the remote rows when the call read them (step 1)
    readFailed, \* the step-1 read of the call failed (both GETs)
    stale,      \* another call's write succeeded after this call's read
    lastOk      \* the last call that reported success: [some, by, snap, twice, same]

VARIABLES
    \* ---- one run of fetch_all_etf_data
    total,       \* len(ETF_CODES); the universe is 1..total
    upstream,    \* what get_etf_daily_kline_sina gives for each code: [res, date]
    cached,      \* the codes the fee cache file holds when it is loaded
    fpc,         \* the orchestrator's position: the phase it is in
    tpc,         \* each task's position in _fetch_daily / _fetch_fee
    tloc,        \* each task's local: the value of the counter it last read
    completed_d, \* completed_d[0]
    completed_f, \* completed_f[0]
    daily_data,  \* daily_data[code]: "pending" until the future's result is stored
    weekly_data, \* weekly_data[code]: whether resampling gave a table
    missing,     \* missing_fee_codes
    df,          \* the table returned
    preempts,    \* how often a thread was switched out inside "completed[0] += 1"
    log          \* the calls of progress_callback, in delivery order: [num, den, phase]

VARIABLES
    \* ---- one run of update_data.main or of app.fetch_and_save_data, and load_data
    token,       \* whether get_github_token finds a token
    local,       \* [exists, rows]: the local cache file ETF_Quant.csv
    rkind,       \* which handler runs: "main", "app" ("none": neither yet)
    rpc,         \* the handler's position
    outcome,     \* what the handler told its caller
    saved,       \* history: the run has called save_to_csv with its snapshot
    loaded       \* the last return of load_data: [some, answered, rows, held, from]

VARIABLES
    \* ---- one call of a function of data_fetcher.py on its own
    arg,         \* the argument of the call
    ret,         \* what the call returned
    at           \* the position: "idle" (no call), "call", then the function's steps

fetchVars == <<total, upstream, cached, fpc, tpc, tloc, completed_d, completed_f,
               daily_data, weekly_data, missing, df, preempts, log>>

mergeVars == <<remote, pc, new_data, combined, sha, ok, sortKind>>
mergeHist == <<calls, before, readFailed, stale, lastOk>>
\* What the merge leaves alone, and what the fetch leaves alone.
runVars == <<token, local, rkind, rpc, outcome, saved, loaded>>
\* The variables of a fetch other than the orchestrator's position.
fetchRest == <<total, upstream, cached, tpc, tloc, completed_d, completed_f,
               daily_data, weekly_data, missing, df, preempts, log>>
callVars == <<arg, ret, at>>
notMerge == <<fetchVars, runVars, callVars>>
notFetch == <<mergeVars, mergeHist, runVars, callVars>>
vars == <<mergeVars, mergeHist, fetchVars, runVars, callVars>>

\* ------------------------------------------------------------------ tables
Range(s) == {s[i] : i \in 1..Len(s)}

DatesOf(s) == {s[i].date : i \in 1..Len(s)}

\* df[~df["日期"].isin(dates)]
DropDates(s, dates) == SelectSeq(s, LAMBDA r : r.date \notin dates)

\* The rows of s with date d, in their order in s.
Group(s, d) == SelectSeq(s, LAMBDA r : r.date = d)

Reverse(g) == [i \in 1..Len(g) |-> g[Len(g) + 1 - i]]

\* The order one group of equal-date rows comes out of the sort in.  The sort is
\* a function of its input, but which one is the library's choice: sortKind is
\* "stable" (ties keep their order, as numpy's quicksort does on short inputs) or
\* "unstable" (ties are permuted, as its partitioning does on longer ones; the
\* model's permutation is the reversal).
TieOrder(g) == IF sortKind = "stable" THEN g ELSE Reverse(g)

RECURSIVE SortFrom(_, _)
SortFrom(s, d) ==
    IF d > NDates THEN <<>> ELSE TieOrder(Group(s, d)) \o SortFrom(s, d + 1)

\* df.sort_values("日期").reset_index(drop=True): ascending by date, with the
\* default kind ("quicksort"), which is not stable.
sort_values(s) == SortFrom(s, 1)

\* A snapshot: at most one row per instrument, in universe order.  f gives each
\* code its date (0: no row for that code).
SnapOf(f, v) ==
    SelectSeq([c \in 1..NCodes |-> [date |-> f[c], code |-> c, val |-> v]],
              LAMBDA r : r.date # 0)

Snapshots == {SnapOf(f, v) : f \in [Codes -> Dates \cup {0}], v \in Vals}

\* Merged with a per-instrument upsert in place of the full-day replace: only the
\* persisted rows whose (date, code) the snapshot holds are removed.
MergedUpsert(existing, snap) ==
    IF existing # <<>>
    THEN sort_values(SelectSeq(existing, LAMBDA r :
                        \A i \in 1..Len(snap) :
                            ~(snap[i].date = r.date /\ snap[i].code = r.code)) \o snap)
    ELSE sort_values(snap)

\* Lines 157-167 of append_data_to_github: the merged table.
Merged(existing, snap) ==
    IF existing # <<>>
    THEN sort_values(DropDates(existing, DatesOf(snap)) \o snap)
    ELSE sort_values(snap)

NoSha == [some |-> FALSE, rows |-> <<>>]
NoCall == [some |-> FALSE, by |-> 0, snap |-> <<>>, twice |-> FALSE, same |-> FALSE]

\* ------------------------------------------------------------------ merge
Running(p) == pc[p] \in {"get_sha", "put"}

\* What read_csv_from_github returns when the remote answers, by the raw URL or
\* by the Contents API: the rows on 200, an empty table on 404 (lines 47-53, 64-72).
ReadValue(file) == IF file.exists THEN file.rows ELSE <<>>

\* append_data_to_github(token, snap), lines 150-167, with the step-1 read
\* answered by the remote.  An empty snapshot returns False at once.
Start(p, snap) ==
    /\ pc[p] \in {"idle", "done"}
    /\ calls < MaxCalls
    /\ calls' = calls + 1
    /\ new_data' = [new_data EXCEPT ![p] = snap]
    /\ before' = [before EXCEPT ![p] = remote.rows]
    /\ readFailed' = [readFailed EXCEPT ![p] = FALSE]
    /\ stale' = [stale EXCEPT ![p] = FALSE]
    /\ sha' = [sha EXCEPT ![p] = NoSha]
    /\ IF snap = <<>>
       THEN /\ pc' = [pc EXCEPT ![p] = "done"]
            /\ ok' = [ok EXCEPT ![p] = FALSE]
            /\ combined' = [combined EXCEPT ![p] = <<>>]
       ELSE /\ pc' = [pc EXCEPT ![p] = "get_sha"]
            /\ ok' = ok
            /\ combined' = [combined EXCEPT ![p] = Merged(ReadValue(remote), snap)]
    /\ UNCHANGED notMerge
    /\ UNCHANGED <<remote, sortKind, lastOk>>

\* The same call with both GETs of read_csv_from_github failing (another status,
\* or an exception): the read returns an empty table (lines 54-57, 73-78).
StartReadFailed(p, snap) ==
    /\ pc[p] \in {"idle", "done"}
    /\ calls < MaxCalls
    /\ snap # <<>>
    /\ calls' = calls + 1
    /\ new_data' = [new_data EXCEPT ![p] = snap]
    /\ before' = [before EXCEPT ![p] = remote.rows]
    /\ readFailed' = [readFailed EXCEPT ![p] = TRUE]
    /\ stale' = [stale EXCEPT ![p] = FALSE]
    /\ sha' = [sha EXCEPT ![p] = NoSha]
    /\ pc' = [pc EXCEPT ![p] = "get_sha"]
    /\ combined' = [combined EXCEPT ![p] = Merged(<<>>, snap)]
    /\ UNCHANGED notMerge
    /\ UNCHANGED <<remote, ok, sortKind, lastOk>>

\* _get_file_sha: the sha of the file as it is now (200), None otherwise.
GetShaValue(file) == IF file.exists THEN [some |-> TRUE, rows |-> file.rows] ELSE NoSha

GetSha(p) ==
    /\ pc[p] = "get_sha"
    /\ \/ sha' = [sha EXCEPT ![p] = GetShaValue(remote)]
       \/ sha' = [sha EXCEPT ![p] = NoSha]
    /\ pc' = [pc EXCEPT ![p] = "put"]
    /\ UNCHANGED notMerge
    /\ UNCHANGED <<remote, new_data, combined, ok, sortKind, mergeHist>>

\* The remote's answer to PUT contents: 201 for a new file, 200 when the sha sent
\* is the sha of the file, 409 / 422 otherwise.
PutAccepted(file, s) ==
    IF file.exists THEN s.some /\ s.rows = file.rows ELSE ~s.some

\* The PUT of write_csv_to_github accepted (200, 201): True.
PutOk(p) ==
    /\ pc[p] = "put"
    /\ PutAccepted(remote, sha[p])
    /\ remote' = [exists |-> TRUE, rows |-> combined[p]]
    /\ pc' = [pc EXCEPT ![p] = "done"]
    /\ ok' = [ok EXCEPT ![p] = TRUE]
    /\ stale' = [q \in Procs |-> IF q # p /\ Running(q) THEN TRUE ELSE stale[q]]
    /\ lastOk' = [some |-> TRUE, by |-> p, snap |-> new_data[p],
                  twice |-> lastOk.some /\ ~stale[p] /\ lastOk.snap = new_data[p],
                  same |-> combined[p] = remote.rows]
    /\ combined' = [combined EXCEPT ![p] = <<>>]
    /\ sha' = [sha EXCEPT ![p] = NoSha]
    /\ UNCHANGED notMerge
    /\ UNCHANGED <<new_data, sortKind, calls, before, readFailed>>

\* The PUT rejected (409, 422) or lost (timeout, connection error): False.
PutFail(p) ==
    /\ pc[p] = "put"
    /\ pc' = [pc EXCEPT ![p] = "done"]
    /\ ok' = [ok EXCEPT ![p] = FALSE]
    /\ combined' = [combined EXCEPT ![p] = <<>>]
    /\ sha' = [sha EXCEPT ![p] = NoSha]
    /\ UNCHANGED notMerge
    /\ UNCHANGED <<remote, new_data, sortKind, mergeHist>>

\* ------------------------------------------------------------------ claims
\* No two rows of s have the same (code, date).
OneRowPerKey(s) ==
    \A i, j \in 1..Len(s) :
        (s[i].code = s[j].code /\ s[i].date = s[j].date) => i = j

\* The remote is as the latest call of p left it, and that call reported success.
JustMerged(p) == pc[p] = "done" /\ ok[p] /\ lastOk.some /\ lastOk.by = p

\* C1: two merges for different dates that read the same dataset (neither read
\* failing) and both report success leave the rows of both snapshots, and the
\* rows of other dates they read, in the remote dataset.
C1_NoSilentLoss ==
    \A p, q \in Procs :
        ( /\ p # q
          /\ pc[p] = "done" /\ pc[q] = "done"
          /\ ok[p] /\ ok[q]
          /\ ~readFailed[p] /\ ~readFailed[q]
          /\ before[p] = before[q]
          /\ DatesOf(new_data[p]) \cap DatesOf(new_data[q]) = {} )
        => /\ Range(new_data[p]) \cup Range(new_data[q]) \subseteq Range(remote.rows)
           /\ \A r \in Range(before[p]) :
                 r.date \notin DatesOf(new_data[p]) \cup DatesOf(new_data[q])
                 => r \in Range(remote.rows)

\* C2: a merge whose read was followed by another merge's successful write,
\* before its own PUT, reports failure.
C2_StaleWriteFails ==
    \A p \in Procs : (pc[p] = "done" /\ stale[p]) => ~ok[p]

\* C3: right after a merge that reports success (no other write since its read),
\* every row the remote held before the call, of a date the snapshot does not
\* hold, is still in the remote dataset, whatever the outcome of the read.
C3_KeepsUnrelatedHistory ==
    \A p \in Procs :
        (JustMerged(p) /\ ~stale[p])
        => \A r \in Range(before[p]) :
              r.date \notin DatesOf(new_data[p]) => r \in Range(remote.rows)

\* C4: the remote dataset holds at most one row per (instrument, date), and for
\* every date of the last merged snapshot its rows of that date are exactly the
\* snapshot's rows of that date.
C4_OneRowPerKey ==
    /\ OneRowPerKey(remote.rows)
    /\ lastOk.some =>
          \A d \in DatesOf(lastOk.snap) :
              /\ Range(Group(remote.rows, d)) = Range(Group(lastOk.snap, d))
              /\ Len(Group(remote.rows, d)) = Len(Group(lastOk.snap, d))

\* C4's case: a merge, sequential to the one before it, has replaced a date of
\* which the remote held a row the snapshot does not hold, and kept another date.
C4_Witness ==
    \E p \in Procs :
        /\ JustMerged(p) /\ ~stale[p] /\ ~readFailed[p]
        /\ \E r \in Range(before[p]) :
              r.date \in DatesOf(new_data[p]) /\ r \notin Range(new_data[p])
        /\ \E r \in Range(before[p]) : r.date \notin DatesOf(new_data[p])

\* C5: a merge that succeeds right after a successful merge of the identical
\* snapshot, no other write in between, leaves the remote dataset as it was
\* (same rows, same order).
C5_Idempotent == lastOk.twice => lastOk.same

NoFile == [exists |-> FALSE, rows |-> <<>>]

\* No call of append_data_to_github has been made.
MergeReady ==
    /\ pc = [p \in Procs |-> "idle"]
    /\ new_data = [p \in Procs |-> <<>>]
    /\ combined = [p \in Procs |-> <<>>]
    /\ sha = [p \in Procs |-> NoSha]
    /\ ok = [p \in Procs |-> FALSE]
    /\ calls = 0
    /\ before = [p \in Procs |-> <<>>]
    /\ readFailed = [p \in Procs |-> FALSE]
    /\ stale = [p \in Procs |-> FALSE]
    /\ lastOk = NoCall

MergeInit ==
    /\ remote = NoFile
    /\ MergeReady
    /\ sortKind \in {"stable", "unstable"}

MergeNext ==
    \E p \in Procs :
        \/ \E snap \in Snapshots : Start(p, snap)
        \/ \E snap \in Snapshots : StartReadFailed(p, snap)
        \/ GetSha(p)
        \/ PutOk(p)
        \/ PutFail(p)

\* ------------------------------------------------------------------ fetch
Today == NDates

Min(a, b) == IF a < b THEN a ELSE b

\* _progress (lines 268-270): progress_callback(min(pct, 0.99), msg).  A fraction
\* is num / den.
Capped(num, den, phase) ==
    IF num * 100 > 99 * den
    THEN [num |-> 99, den |-> 100, phase |-> phase]
    ELSE [num |-> num, den |-> den, phase |-> phase]

\* The pool at work: its number of tasks, its counter, its width, and the
\* fraction it reports for a counter value (lines 290 and 325).
NTasks == IF fpc = "daily" THEN total ELSE Cardinality(missing)

Counter == IF fpc = "daily" THEN completed_d ELSE completed_f

Width == IF fpc = "daily" THEN MaxWorkersDaily ELSE MaxWorkersFee

PoolPct(c) ==
    IF fpc = "daily"
    THEN Capped(5 * NTasks + 50 * c, 100 * NTasks, "daily")
    ELSE Capped(62 * NTasks + 30 * c, 100 * NTasks, "fees")

InFlight == {c \in 1..total : tpc[c] \notin {"queued", "done"}}

\* No join: the orchestrator goes on while tasks run.
NoJoin == TRUE

\* The join at the end of a "with ThreadPoolExecutor" block (shutdown(wait=True))
\* and of the as_completed loop: every task submitted has returned.
AllTasksDone == \A c \in 1..total : tpc[c] = "done"

\* A step of task c switches another thread out between the read and the write of
\* its "completed[0] += 1" (lines 288 and 323).  The interpreter may do so; the
\* model bounds how often.  The thread switched out is "held" until it writes.
Preempting(c) == \E b \in 1..total : b # c /\ tpc[b] = "write"

Switched(c) ==
    [b \in 1..total |-> IF b # c /\ tpc[b] = "write" THEN "held" ELSE tpc[b]]

Scheduled(c) ==
    /\ Preempting(c) => preempts < MaxPreempt
    /\ preempts' = IF Preempting(c) THEN preempts + 1 ELSE preempts

\* The future's result is stored by the as_completed loop (lines 296-301).
Stored(c) ==
    IF fpc = "daily" THEN [daily_data EXCEPT ![c] = upstream[c].res] ELSE daily_data

\* Step 1 and the start of step 2 (lines 275-295): the name lookup, the two
\* emissions, and the submission of one _fetch_daily per code.
FetchStart ==
    /\ fpc = "start"
    /\ log' = log \o <<Capped(1, 100, "names"), Capped(5, 100, "daily")>>
    /\ tpc' = [c \in 1..total |-> "queued"]
    /\ completed_d' = 0
    /\ fpc' = "daily"
    /\ UNCHANGED notFetch
    /\ UNCHANGED <<preempts, total, upstream, cached, tloc, completed_f, daily_data,
                   weekly_data, missing, df>>

\* A worker thread takes the next task of the queue and makes the upstream call
\* (lines 287 and 322); at most max_workers tasks run at a time.
TaskStart(c) ==
    /\ fpc \in {"daily", "fees"}
    /\ tpc[c] = "queued"
    /\ Scheduled(c)
    /\ \A b \in 1..(c - 1) : tpc[b] # "queued"
    /\ Cardinality(InFlight) < Min(Width, Threads)
    /\ tpc' = [Switched(c) EXCEPT ![c] = "read"]
    /\ UNCHANGED notFetch
    /\ UNCHANGED <<total, upstream, cached, fpc, tloc, completed_d, completed_f,
                   daily_data, weekly_data, missing, df, log>>

\* completed[0] += 1 (lines 288 and 323) is a read ...
TaskRead(c) ==
    /\ fpc \in {"daily", "fees"}
    /\ tpc[c] = "read"
    /\ Scheduled(c)
    /\ tloc' = [tloc EXCEPT ![c] = Counter]
    /\ tpc' = [Switched(c) EXCEPT ![c] = "write"]
    /\ UNCHANGED notFetch
    /\ UNCHANGED <<total, upstream, cached, fpc, completed_d, completed_f,
                   daily_data, weekly_data, missing, df, log>>

\* ... followed by a write, with no lock held.
TaskWrite(c) ==
    /\ fpc \in {"daily", "fees"}
    /\ tpc[c] \in {"write", "held"}
    /\ Scheduled(c)
    /\ IF fpc = "daily"
       THEN completed_d' = tloc[c] + 1 /\ completed_f' = completed_f
       ELSE completed_f' = tloc[c] + 1 /\ completed_d' = completed_d
    /\ tpc' = [Switched(c) EXCEPT ![c] = "check"]
    /\ UNCHANGED notFetch
    /\ UNCHANGED <<total, upstream, cached, fpc, tloc, daily_data, weekly_data,
                   missing, df, log>>

\* The condition of lines 289 and 324; without an emission the task returns.
TaskCheck(c) ==
    /\ fpc \in {"daily", "fees"}
    /\ tpc[c] = "check"
    /\ Scheduled(c)
    /\ IF Counter % ProgressEvery = 0 \/ Counter = NTasks
       THEN /\ tpc' = [Switched(c) EXCEPT ![c] = "pct"]
            /\ UNCHANGED <<tloc, daily_data>>
       ELSE /\ tpc' = [Switched(c) EXCEPT ![c] = "done"]
            /\ tloc' = [tloc EXCEPT ![c] = 0]
            /\ daily_data' = Stored(c)
    /\ UNCHANGED notFetch
    /\ UNCHANGED <<total, upstream, cached, fpc, completed_d, completed_f,
                   weekly_data, missing, df, log>>

\* pct is computed from the counter as it is now (lines 290 and 325).
TaskPct(c) ==
    /\ fpc \in {"daily", "fees"}
    /\ tpc[c] = "pct"
    /\ Scheduled(c)
    /\ tloc' = [tloc EXCEPT ![c] = Counter]
    /\ tpc' = [Switched(c) EXCEPT ![c] = "emit"]
    /\ UNCHANGED notFetch
    /\ UNCHANGED <<total, upstream, cached, fpc, completed_d, completed_f,
                   daily_data, weekly_data, missing, df, log>>

\* The callback is called (lines 291 and 326-329) and the task returns.
TaskEmit(c) ==
    /\ fpc \in {"daily", "fees"}
    /\ tpc[c] = "emit"
    /\ Scheduled(c)
    /\ log' = Append(log, PoolPct(tloc[c]))
    /\ tpc' = [Switched(c) EXCEPT ![c] = "done"]
    /\ tloc' = [tloc EXCEPT ![c] = 0]
    /\ daily_data' = Stored(c)
    /\ UNCHANGED notFetch
    /\ UNCHANGED <<total, upstream, cached, fpc, completed_d, completed_f,
                   weekly_data, missing, df>>

\* resample_daily_to_weekly (lines 104-105): None for no table or an empty one.
HasWeekly(res) == res = "ok"

\* Step 3 (lines 294-310): past the join of the daily pool, the emission and the
\* resampling of every code's daily table.
Resample ==
    /\ fpc = "daily"
    /\ AllTasksDone
    /\ log' = Append(log, Capped(58, 100, "weekly"))
    /\ weekly_data' = [c \in 1..total |-> HasWeekly(daily_data[c])]
    /\ fpc' = "weekly"
    /\ UNCHANGED notFetch
    /\ UNCHANGED <<preempts, total, upstream, cached, tpc, tloc, completed_d, completed_f,
                   daily_data, missing, df>>

\* Step 4 (lines 313-333): the emission, the cache load, and the submission of
\* one _fetch_fee per code the cache does not hold.
StartFees ==
    /\ fpc = "weekly"
    /\ log' = Append(log, Capped(62, 100, "fees"))
    /\ missing' = (1..total) \ cached
    /\ tpc' = [c \in 1..total |-> IF c \in cached THEN "done" ELSE "queued"]
    /\ completed_f' = 0
    /\ fpc' = "fees"
    /\ UNCHANGED notFetch
    /\ UNCHANGED <<preempts, total, upstream, cached, tloc, completed_d, daily_data,
                   weekly_data, df>>

\* The row of one code (lines 350-388): the date of its last daily bar, or today's
\* date when it has no daily table; val 0 stands for values computed from no table.
RowOf(c) ==
    IF daily_data[c] = "ok"
    THEN [date |-> upstream[c].date, code |-> c, val |-> 1]
    ELSE [date |-> Today, code |-> c, val |-> 0]

\* Rows with the codes that have no daily table left out.
RowsOfFetched == SelectSeq([c \in 1..total |-> RowOf(c)], LAMBDA r : r.val # 0)

\* The rows of step 5: one per code of ETF_CODES, in that order (lines 350-390).
Rows == [c \in 1..total |-> RowOf(c)]

\* Step 5 (lines 332-390): past the join of the fee pool, the emission and the
\* result table.
Assemble ==
    /\ fpc = "fees"
    /\ AllTasksDone
    /\ log' = Append(log, Capped(94, 100, "assemble"))
    /\ df' = Rows
    /\ fpc' = "assemble"
    /\ UNCHANGED notFetch
    /\ UNCHANGED <<preempts, total, upstream, cached, tpc, tloc, completed_d, completed_f,
                   daily_data, weekly_data, missing>>

\* Lines 392-395: the last emission, not capped, and the return.
Finish ==
    /\ fpc = "assemble"
    /\ log' = Append(log, [num |-> 100, den |-> 100, phase |-> "done"])
    /\ fpc' = "done"
    /\ UNCHANGED notFetch
    /\ UNCHANGED <<preempts, total, upstream, cached, tpc, tloc, completed_d, completed_f,
                   daily_data, weekly_data, missing, df>>

\* What the upstream can give for one code.
Upstreams ==
    {[res |-> "ok", date |-> d] : d \in Dates}
        \cup {[res |-> r, date |-> 0] : r \in {"empty", "none"}}

\* A run about to start on a universe of n codes.
FetchReady(n) ==
    /\ total = n
    /\ tpc = [c \in 1..n |-> "done"]
    /\ tloc = [c \in 1..n |-> 0]
    /\ completed_d = 0
    /\ completed_f = 0
    /\ daily_data = [c \in 1..n |-> "pending"]
    /\ weekly_data = [c \in 1..n |-> FALSE]
    /\ missing = {}
    /\ df = <<>>
    /\ log = <<>>

\* No run of fetch_all_etf_data.
FetchIdle ==
    /\ total = 0
    /\ upstream = <<>>
    /\ cached = {}
    /\ fpc = "idle"
    /\ tpc = <<>>
    /\ tloc = <<>>
    /\ completed_d = 0
    /\ completed_f = 0
    /\ daily_data = <<>>
    /\ weekly_data = <<>>
    /\ missing = {}
    /\ df = <<>>
    /\ preempts = 0
    /\ log = <<>>

FetchNext ==
    \/ FetchStart
    \/ \E c \in 1..total : TaskStart(c)
    \/ \E c \in 1..total : TaskRead(c)
    \/ \E c \in 1..total : TaskWrite(c)
    \/ \E c \in 1..total : TaskCheck(c)
    \/ \E c \in 1..total : TaskPct(c)
    \/ \E c \in 1..total : TaskEmit(c)
    \/ Resample
    \/ StartFees
    \/ Assemble
    \/ Finish

\* ------------------------------------------------------------------ claims on the fetch
LeqFrac(a, b) == a.num * b.den <= b.num * a.den

PhaseRank(ph) ==
    CASE ph = "names" -> 1
      [] ph = "daily" -> 2
      [] ph = "weekly" -> 3
      [] ph = "fees" -> 4
      [] ph = "assemble" -> 5
      [] ph = "done" -> 6
      [] OTHER -> 0

RowsWithCode(c) == {i \in 1..Len(df) : df[i].code = c}

C7_Monotone ==
    /\ \A i \in 1..Len(log) : 0 <= log[i].num /\ log[i].num <= log[i].den
    /\ \A i \in 1..(Len(log) - 1) : LeqFrac(log[i], log[i + 1])

\* C8: the phases come in the fixed order with a join between them: past the
\* join of a pool none of its tasks is running and every daily result is stored;
\* the emissions come in phase order, the last one made is of the phase the
\* orchestrator is in, and the "done" emission (fraction 1) is the last of a run,
\* which has then emitted every phase.
C8_PhaseOrder ==
    /\ fpc \in {"weekly", "assemble", "done"} => InFlight = {} /\ AllTasksDone
    /\ fpc \in {"weekly", "fees", "assemble", "done"} =>
          \A c \in 1..total : daily_data[c] # "pending"
    /\ \A i \in 1..(Len(log) - 1) : PhaseRank(log[i].phase) <= PhaseRank(log[i + 1].phase)
    /\ \A i \in 1..Len(log) :
          log[i].phase = "done" => i = Len(log) /\ log[i].num = log[i].den
    /\ fpc \in {"daily", "weekly", "fees", "assemble", "done"} =>
          log # <<>> /\ log[Len(log)].phase = fpc
    /\ fpc = "done" => {log[i].phase : i \in 1..Len(log)} =
                          {"names", "daily", "weekly", "fees", "assemble", "done"}

\* C8's case: a finished run in which tasks of both pools made emissions.
C8_Witness ==
    /\ fpc = "done"
    /\ Cardinality({i \in 1..Len(log) : log[i].phase = "daily"}) > 1
    /\ Cardinality({i \in 1..Len(log) : log[i].phase = "fees"}) > 1

\* ------------------------------------------------------------------ runs
mergeAll == <<mergeVars, mergeHist>>

NoLoad == [some |-> FALSE, answered |-> FALSE, rows |-> <<>>, held |-> <<>>,
           from |-> "none"]

\* save_to_csv (data_fetcher.py, lines 402-421): the file after the call.  Only
\* the rows of the snapshot's first date are removed from the file's rows; the
\* snapshot is appended, nothing is sorted.
save_to_csv(file, new) ==
    IF new = <<>>
    THEN file
    ELSE IF file.exists
         THEN [exists |-> TRUE,
               rows |-> SelectSeq(file.rows, LAMBDA r : r.date # new[1].date) \o new]
         ELSE [exists |-> TRUE, rows |-> new]

\* update_data.main, lines 33-52: without a token the process exits with status 1
\* at once; with one it calls fetch_all_etf_data.
MainStart ==
    /\ rpc = "idle"
    /\ rkind' = "main"
    /\ IF token
       THEN rpc' = "fetch" /\ fpc' = "start" /\ outcome' = outcome
       ELSE rpc' = "done" /\ fpc' = fpc /\ outcome' = "exit1_no_token"
    /\ UNCHANGED <<token, local, saved, loaded>>
    /\ UNCHANGED <<mergeAll, fetchRest, callVars>>

\* update_data.main, lines 54-89, once the fetch has returned.  An empty table is
\* sys.exit(1) (line 56).  Otherwise line 66 evaluates pd.Series(): the table
\* has the column (data_fetcher.py line 382) and the module never imports
\* pandas, so the NameError is caught at line 86 and the process exits with
\* status 1 (line 89).  Lines 75-84 (save_to_csv, append_data_to_github) are
\* never reached.
MainStats ==
    /\ rkind = "main"
    /\ rpc = "fetch"
    /\ fpc = "done"
    /\ rpc' = "done"
    /\ outcome' = IF df = <<>> THEN "exit1_no_data" ELSE "exit1_update_failed"
    /\ UNCHANGED <<token, local, rkind, saved, loaded>>
    /\ UNCHANGED <<mergeAll, fetchVars, callVars>>

\* app.fetch_and_save_data, lines 68-79: the call of fetch_all_etf_data.
AppStart ==
    /\ rpc = "idle"
    /\ rkind' = "app"
    /\ rpc' = "fetch"
    /\ fpc' = "start"
    /\ UNCHANGED <<token, local, outcome, saved, loaded>>
    /\ UNCHANGED <<mergeAll, fetchRest, callVars>>

\* app.fetch_and_save_data, lines 81-88 and 94-106, once the fetch has returned:
\* the local write, then the token lookup.
AppSave ==
    /\ rkind = "app"
    /\ rpc = "fetch"
    /\ fpc = "done"
    /\ IF df = <<>>
       THEN /\ rpc' = "done"
            /\ outcome' = "fetch_failed"
            /\ UNCHANGED <<local, saved>>
       ELSE /\ local' = save_to_csv(local, df)
            /\ saved' = TRUE
            /\ IF token
               THEN rpc' = "append" /\ outcome' = outcome
               ELSE rpc' = "done" /\ outcome' = "local_only"
    /\ UNCHANGED <<token, rkind, loaded>>
    /\ UNCHANGED <<mergeAll, fetchVars, callVars>>

\* app.fetch_and_save_data, line 89: append_data_to_github(token, new_data), its
\* read answered by the remote ...
AppAppend ==
    /\ rkind = "app"
    /\ rpc = "append"
    /\ pc[1] = "idle"
    /\ Start(1, df)

\* ... or failing.
AppAppendReadFailed ==
    /\ rkind = "app"
    /\ rpc = "append"
    /\ pc[1] = "idle"
    /\ StartReadFailed(1, df)

\* app.fetch_and_save_data, lines 90-104: the message made from the call's result.
AppReport ==
    /\ rkind = "app"
    /\ rpc = "append"
    /\ pc[1] = "done"
    /\ rpc' = "done"
    /\ outcome' = IF ok[1] THEN "synced" ELSE "sync_failed"
    /\ UNCHANGED <<token, local, rkind, saved, loaded>>
    /\ UNCHANGED <<mergeAll, fetchVars, callVars>>

\* app.load_data, lines 48-62, got being what read_csv_from_github returned (an
\* empty table when no read was made): a non-empty table is written to the local
\* file and returned; otherwise the local file is returned if there is one.
load_data(got, file) ==
    IF got # <<>>
    THEN [rows |-> got, from |-> "remote", file |-> [exists |-> TRUE, rows |-> got]]
    ELSE IF file.exists
         THEN [rows |-> file.rows, from |-> "local", file |-> file]
         ELSE [rows |-> <<>>, from |-> "empty", file |-> file]

\* A call of load_data (app.py line 271, on every render of the page outside a
\* run) whose read the remote answers, with the file or with 404.
LoadAnswered ==
    /\ rpc \in {"idle", "done"}
    /\ token
    /\ LET r == load_data(ReadValue(remote), local)
       IN /\ local' = r.file
          /\ loaded' = [some |-> TRUE, answered |-> TRUE, rows |-> r.rows,
                        held |-> ReadValue(remote), from |-> r.from]
    /\ UNCHANGED <<token, rkind, rpc, outcome, saved>>
    /\ UNCHANGED <<mergeAll, fetchVars, callVars>>

\* A call of load_data with no token, or with both GETs of the read failing
\* (github_storage.py lines 54-57, 73-78).
LoadReadFailed ==
    /\ rpc \in {"idle", "done"}
    /\ LET r == load_data(<<>>, local)
       IN /\ local' = r.file
          /\ loaded' = [some |-> TRUE, answered |-> FALSE, rows |-> r.rows,
                        held |-> ReadValue(remote), from |-> r.from]
    /\ UNCHANGED <<token, rkind, rpc, outcome, saved>>
    /\ UNCHANGED <<mergeAll, fetchVars, callVars>>

\* No function is called on its own.
CallIdle ==
    /\ arg = <<>>
    /\ ret = <<>>
    /\ at = "idle"

\* No handler has run.
RunIdle ==
    /\ local = NoFile
    /\ rkind = "none"
    /\ rpc = "idle"
    /\ outcome = "none"
    /\ saved = FALSE
    /\ loaded = NoLoad

RunNext ==
    \/ MainStart
    \/ MainStats
    \/ AppStart
    \/ AppSave
    \/ AppAppend
    \/ AppAppendReadFailed
    \/ AppReport
    \/ LoadAnswered
    \/ LoadReadFailed
    \/ FetchStart
    \/ \E c \in 1..total : TaskStart(c)
    \/ \E c \in 1..total : TaskRead(c)
    \/ \E c \in 1..total : TaskWrite(c)
    \/ \E c \in 1..total : TaskCheck(c)
    \/ \E c \in 1..total : TaskPct(c)
    \/ \E c \in 1..total : TaskEmit(c)
    \/ Resample
    \/ StartFees
    \/ Assemble
    \/ Finish
    \/ GetSha(1)
    \/ PutOk(1)
    \/ PutFail(1)

\* ------------------------------------------------------------------ claims on the runs
\* C9: a finished run whose fetch gave a non-empty snapshot and whose snapshot
\* was not persisted remotely has written the snapshot to the local cache file
\* and has told its caller that persistence failed: the app's message of a failed
\* sync, or main's exit with status 1 after the local write.
C9_LocalWrittenOnFailure ==
    ( /\ rpc = "done"
      /\ token
      /\ df # <<>>
      /\ outcome # "synced" )
    => /\ saved
       /\ Range(df) \subseteq Range(local.rows)
       /\ outcome = "sync_failed"

\* C10: when the remote answers the read (the file, or 404), load_data returns
\* the remote's dataset and not the local file's rows.
C10_RemoteAuthoritative ==
    (loaded.some /\ loaded.answered)
    => loaded.rows = loaded.held /\ loaded.from # "local"

\* ------------------------------------------------------------------ indicators
\* A close is a whole number of ten-thousandths, so that round(close, 4) is the
\* close itself; NaN is what pd.to_numeric(errors="coerce") makes of a close that
\* is no number (line 92).  Window stands for the 60 of lines 174-187.
NaN == 0

\* A placeholder zero in place of None.
ZeroV == [some |-> TRUE, v |-> 0]

\* None, as a field of a result.
NoneV == [some |-> FALSE, v |-> 0]

Some(v) == [some |-> TRUE, v |-> v]

RECURSIVE SumOver(_, _, _)
SumOver(s, i, j) == IF i > j THEN 0 ELSE s[j] + SumOver(s, i, j - 1)

RECURSIVE Pow(_, _)
Pow(b, e) == IF e <= 0 THEN 1 ELSE b * Pow(b, e - 1)

\* round(n / d, 4) in ten-thousandths: the nearest whole number, a half going to
\* the even neighbour.
Round(n, d) ==
    LET q == n \div d
        r == n % d
    IN  IF 2 * r < d THEN q
        ELSE IF 2 * r > d THEN q + 1
        ELSE IF q % 2 = 0 THEN q ELSE q + 1

\* close.rolling(window=60).mean() at position i is NaN when fewer than 60 closes
\* end at i or one of them is NaN; otherwise it is RollingSum / Window.
RollingNaN(c, i) == i < Window \/ \E k \in (i - Window + 1)..i : c[k] = NaN

RollingSum(c, i) == SumOver(c, i - Window + 1, i)

\* Lines 182 and 195: both operands are the rounded values.
Relation(latest_close, latest_ma60) ==
    IF latest_close >= latest_ma60 THEN "above" ELSE "below"

\* Lines 201-208: the previous day's comparison is made on the unrounded values,
\* today's on the rounded ones.
CrossSignal(c, n) ==
    IF RollingNaN(c, n - 1)
    THEN ""
    ELSE LET prev_above == c[n - 1] * Window >= RollingSum(c, n - 1)
             curr_above == c[n] >= Round(RollingSum(c, n), Window)
         IN  IF ~prev_above /\ curr_above THEN "crossUp"
             ELSE IF prev_above /\ ~curr_above THEN "crossDown"
             ELSE ""

\* calculate_ma60_relation (lines 168-210); d is [none, closes], none for a
\* daily_df of None.
calculate_ma60_relation(d) ==
    LET c == d.closes
        n == Len(c)
        unavailable == [close |-> NoneV, ma |-> NoneV, relation |-> "N/A", cross |-> ""]
        nan_ma == [close |-> Some(c[n]), ma |-> NoneV, relation |-> "N/A", cross |-> ""]
        latest_ma60 == Round(RollingSum(c, n), Window)
    IN  IF d.none \/ n < Window + 1
        THEN IF ~d.none /\ n >= Window
             THEN IF RollingNaN(c, n)
                  THEN nan_ma
                  ELSE [close |-> Some(c[n]), ma |-> Some(latest_ma60),
                        relation |-> Relation(c[n], latest_ma60), cross |-> ""]
             ELSE unavailable
        ELSE IF RollingNaN(c, n)
             THEN nan_ma
             ELSE [close |-> Some(c[n]), ma |-> Some(latest_ma60),
                   relation |-> Relation(c[n], latest_ma60),
                   cross |-> CrossSignal(c, n)]

\* alpha = 2 / (span + 1) of ewm(span=..., adjust=False), in lowest terms.
Alpha(span) ==
    IF span % 2 = 1 THEN [n |-> 1, d |-> (span + 1) \div 2] ELSE [n |-> 2, d |-> span + 1]

\* x.ewm(span, adjust=False).mean() at position t, times a.d^(t-1):
\* e[1] = x[1], e[t] = alpha * x[t] + (1 - alpha) * e[t-1].
RECURSIVE EmaN(_, _, _)
EmaN(x, a, t) ==
    IF t = 1 THEN x[1]
    ELSE a.n * x[t] * Pow(a.d, t - 2) + (a.d - a.n) * EmaN(x, a, t - 1)

\* The common denominator of ema_fast and ema_slow is DifBase^(t-1).
DifBase(w) == Alpha(w.fast).d * Alpha(w.slow).d

\* dif = ema_fast - ema_slow (line 228), every position brought to the
\* denominator DifBase^(n-1), n being the length of the series.
Dif(w) ==
    LET n == Len(w.closes)
        f == Alpha(w.fast)
        sl == Alpha(w.slow)
    IN  [t \in 1..n |->
            (EmaN(w.closes, f, t) * Pow(sl.d, t - 1)
                - EmaN(w.closes, sl, t) * Pow(f.d, t - 1))
            * Pow(DifBase(w), n - t)]

\* The denominator of dea and of macd_hist at position t.
HistDen(w, t) == Pow(DifBase(w), Len(w.closes) - 1) * Pow(Alpha(w.signal).d, t - 1)

\* dea = dif.ewm(span=signal, adjust=False).mean() (line 229), over HistDen.
Dea(w, t) == EmaN(Dif(w), Alpha(w.signal), t)

\* macd_hist = 2 * (dif - dea) (line 230), over HistDen.
Hist(w, t) == 2 * (Dif(w)[t] * Pow(Alpha(w.signal).d, t - 1) - Dea(w, t))

\* The previous value taken as 0.0 whatever the series holds.
PrevHistDefault(w) == 0

\* prev_macd (line 233).
PrevHist(w) ==
    IF Len(w.closes) >= 2 THEN Hist(w, Len(w.closes) - 1) ELSE 0

\* Lines 236-240.
TurnSignal(prev_macd, curr_macd) ==
    IF prev_macd > 0 /\ curr_macd <= 0 THEN "redToGreen"
    ELSE IF prev_macd <= 0 /\ curr_macd > 0 THEN "greenToRed"
    ELSE ""

\* calculate_weekly_macd (lines 213-247); w is [none, closes, fast, slow, signal].
calculate_weekly_macd(w) ==
    LET n == Len(w.closes)
    IN  IF w.none \/ n < w.slow + w.signal
        THEN [dif |-> NoneV, dea |-> NoneV, macd |-> NoneV, turn |-> ""]
        ELSE [dif |-> Some(Round(Dif(w)[n], Pow(DifBase(w), n - 1))),
              dea |-> Some(Round(Dea(w, n), HistDen(w, n))),
              macd |-> Some(Round(Hist(w, n), HistDen(w, n))),
              turn |-> TurnSignal(PrevHist(w), Hist(w, n))]

\* The step-5 call of calculate_ma60_relation (line 359).
CalcMa60 ==
    /\ at = "ma60"
    /\ ret' = calculate_ma60_relation(arg)
    /\ at' = "ma60_done"
    /\ UNCHANGED <<arg, mergeVars, mergeHist, fetchVars, runVars>>

\* The step-5 call of calculate_weekly_macd (line 363).
CalcMacd ==
    /\ at = "macd"
    /\ ret' = calculate_weekly_macd(arg)
    /\ at' = "macd_done"
    /\ UNCHANGED <<arg, mergeVars, mergeHist, fetchVars, runVars>>

IndicatorNext ==
    \/ CalcMa60
    \/ CalcMacd

\* The series of at most MaxBars closes, with and without NaN.
Series(low) == UNION {[1..k -> low..NClose] : k \in 0..MaxBars}

\* The (fast, slow, signal) spans the MACD is computed with.
Spans == {<<1, 3, 3>>, <<1, 3, 1>>}

DailyArgs ==
    {[none |-> TRUE, closes |-> <<>>]} \cup {[none |-> FALSE, closes |-> c] : c \in Series(NaN)}

\* A weekly table comes out of resample_daily_to_weekly, whose dropna leaves no NaN.
WeeklyArgs ==
    {[none |-> TRUE, closes |-> <<>>, fast |-> sp[1], slow |-> sp[2], signal |-> sp[3]] :
        sp \in Spans}
    \cup {[none |-> FALSE, closes |-> c, fast |-> sp[1], slow |-> sp[2], signal |-> sp[3]] :
            c \in Series(1), sp \in Spans}

\* ------------------------------------------------------------------ claims on the indicators
\* The values a signal field holds when it was computed.
ComputedSignals == {"", "crossUp", "crossDown", "redToGreen", "greenToRed"}

Numeric(c) == \A k \in 1..Len(c) : c[k] # NaN

\* The (close >= SMA) boolean of day i, from that day's close and that day's mean
\* of the trailing Window closes.
Above(c, i) == c[i] * Window >= RollingSum(c, i)

\* C11 amended: with insufficient history the number fields are None and the
\* relation is "N/A", which no computation on enough numeric history gives; the
\* cross / turn signal field is "", the value of a computed "none".
C11_UnavailableFields ==
    /\ (at = "ma60_done" /\ (arg.none \/ Len(arg.closes) < Window)) =>
          /\ ret.close = [some |-> FALSE, v |-> 0]
          /\ ret.ma = [some |-> FALSE, v |-> 0]
          /\ ret.relation = "N/A"
          /\ ret.cross = ""
    /\ (at = "ma60_done" /\ ~arg.none /\ Len(arg.closes) >= Window
            /\ Numeric(arg.closes)) =>
          /\ ret.close.some
          /\ ret.ma.some
          /\ ret.relation \in {"above", "below"}
    /\ (at = "macd_done" /\ (arg.none \/ Len(arg.closes) < arg.slow + arg.signal)) =>
          /\ ret.dif = [some |-> FALSE, v |-> 0]
          /\ ret.dea = [some |-> FALSE, v |-> 0]
          /\ ret.macd = [some |-> FALSE, v |-> 0]
          /\ ret.turn = ""
    /\ (at = "macd_done" /\ ~arg.none /\ Len(arg.closes) >= arg.slow + arg.signal) =>
          ret.dif.some /\ ret.dea.some /\ ret.macd.some

\* C11's case: a daily series one bar short of the window has been given its result.
C11_Witness ==
    /\ at = "ma60_done"
    /\ ~arg.none
    /\ Len(arg.closes) = Window - 1
    /\ ret.relation = "N/A"

\* C11 as stated: with insufficient history (a daily series shorter than the SMA
\* window, a weekly series shorter than slow + signal bars, or no series) every
\* output field holds an unavailable marker that no computation gives: no
\* number, a relation of "N/A", and a cross / turn signal that is not a computed
\* signal (a computed "none" included).
C11_UnavailableIsMarked ==
    /\ (at = "ma60_done" /\ (arg.none \/ Len(arg.closes) < Window)) =>
          /\ ~ret.close.some
          /\ ~ret.ma.some
          /\ ret.relation = "N/A"
          /\ ret.cross \notin ComputedSignals
    /\ (at = "macd_done" /\ (arg.none \/ Len(arg.closes) < arg.slow + arg.signal)) =>
          /\ ~ret.dif.some
          /\ ~ret.dea.some
          /\ ~ret.macd.some
          /\ ret.turn \notin ComputedSignals

\* C12: for a daily series of at least Window numeric closes the relation is
\* "above" exactly when the latest close is >= the mean of the trailing Window
\* closes, "below" exactly when it is smaller, and never "N/A".
C12_Relation ==
    (at = "ma60_done" /\ ~arg.none /\ Len(arg.closes) >= Window /\ Numeric(arg.closes)) =>
        ret.relation = IF Above(arg.closes, Len(arg.closes)) THEN "above" ELSE "below"

\* The signal C13 states: from the two days' own booleans, none below Window + 1 bars.
ExpectedCross(c) ==
    LET n == Len(c)
    IN  IF n < Window + 1 THEN ""
        ELSE IF ~Above(c, n - 1) /\ Above(c, n) THEN "crossUp"
        ELSE IF Above(c, n - 1) /\ ~Above(c, n) THEN "crossDown"
        ELSE ""

\* C13: the cross signal is crossUp exactly when (close >= SMA) goes from false on
\* the previous day to true on the last day, crossDown exactly when it goes from
\* true to false, and none otherwise, and none for fewer than Window + 1 bars.
C13_Cross ==
    (at = "ma60_done" /\ Numeric(arg.closes)) => ret.cross = ExpectedCross(arg.closes)

\* C14: for a weekly series of at least slow + signal bars the turn signal is
\* redToGreen exactly when the histogram was > 0 and is now <= 0, greenToRed
\* exactly when it was <= 0 and is now > 0, and none otherwise.
C14_Turn ==
    (at = "macd_done" /\ ~arg.none /\ Len(arg.closes) >= arg.slow + arg.signal) =>
        LET n == Len(arg.closes)
            h_prev == Hist(arg, n - 1)
            h_curr == Hist(arg, n)
        IN  /\ ret.turn \in {"", "redToGreen", "greenToRed"}
            /\ ret.turn = "redToGreen" <=> (h_prev > 0 /\ h_curr <= 0)
            /\ ret.turn = "greenToRed" <=> (h_prev <= 0 /\ h_curr > 0)

\* C14's case: a series whose histogram goes from above zero to below it, and the
\* signal returned for it.
C14_Witness ==
    /\ at = "macd_done"
    /\ ~arg.none
    /\ Len(arg.closes) >= arg.slow + arg.signal
    /\ Hist(arg, Len(arg.closes) - 1) > 0
    /\ Hist(arg, Len(arg.closes)) < 0
    /\ ret.turn = "redToGreen"

\* ------------------------------------------------------------------ weekly resampling
\* A bar is [date, open, high, low, close, volume]; a date is a day number, the
\* multiples of DaysPerWeek being the Sundays.  A table is [none, bars], none for
\* None.
SetMax(S) == CHOOSE x \in S : \A y \in S : y <= x

SetMin(S) == CHOOSE x \in S : \A y \in S : x <= y

\* The label of the bin of resample("W") a day falls in: the Sunday that ends its
\* week (bins are closed and labelled on the right).
WeekEnd(day) == ((day + DaysPerWeek - 1) \div DaysPerWeek) * DaysPerWeek

\* The aggregate of one bin (line 110): first, max, min, last, sum.  A bin with no
\* row has NaN for the four prices and 0 for the sum.
AggWeek(bars, label) ==
    LET g == SelectSeq(bars, LAMBDA b : WeekEnd(b.date) = label)
    IN  IF g = <<>>
        THEN [date |-> label, open |-> NaN, high |-> NaN, low |-> NaN, close |-> NaN,
              volume |-> 0]
        ELSE [date |-> label,
              open |-> g[1].open,
              high |-> SetMax({g[i].high : i \in 1..Len(g)}),
              low |-> SetMin({g[i].low : i \in 1..Len(g)}),
              close |-> g[Len(g)].close,
              volume |-> SumOver([i \in 1..Len(g) |-> g[i].volume], 1, Len(g))]

\* df.resample("W").agg(...): one row for every week from the first bar's to the
\* last bar's.
WeekRows(bars) ==
    LET days == {bars[i].date : i \in 1..Len(bars)}
        lo == WeekEnd(SetMin(days))
        hi == WeekEnd(SetMax(days))
    IN  [k \in 1..((hi - lo) \div DaysPerWeek + 1) |->
            AggWeek(bars, lo + (k - 1) * DaysPerWeek)]

\* Every row is kept, the rows of empty weeks included.
keepna(rows) == rows

\* .dropna() (line 111): the rows with a NaN are removed.
dropna(rows) ==
    SelectSeq(rows, LAMBDA r : r.open # NaN /\ r.high # NaN /\ r.low # NaN /\ r.close # NaN)

\* resample_daily_to_weekly (lines 100-115).
resample_daily_to_weekly(d) ==
    IF d.none \/ d.bars = <<>>
    THEN [none |-> TRUE, bars |-> <<>>]
    ELSE [none |-> FALSE, bars |-> dropna(WeekRows(d.bars))]

\* The call of line 310 on a daily table ...
ResampleDaily ==
    /\ at = "resample"
    /\ ret' = [once |-> resample_daily_to_weekly(arg), twice |-> [none |-> TRUE, bars |-> <<>>]]
    /\ at' = "once"
    /\ UNCHANGED <<arg, mergeVars, mergeHist, fetchVars, runVars>>

\* ... and the same call on the weekly table it returned.
ResampleWeekly ==
    /\ at = "once"
    /\ ret' = [ret EXCEPT !.twice = resample_daily_to_weekly(ret.once)]
    /\ at' = "twice"
    /\ UNCHANGED <<arg, mergeVars, mergeHist, fetchVars, runVars>>

WeeklyNext ==
    \/ ResampleDaily
    \/ ResampleWeekly

\* The (open, close) of a bar, with the high and the low they imply.
Quotes ==
    {[open |-> o, high |-> IF o > c THEN o ELSE c, low |-> IF o < c THEN o ELSE c,
      close |-> c, volume |-> 1] : o \in 1..NPrice, c \in 1..NPrice}

\* The bars of the days S with the quotes q, ascending by date (line 94).
RECURSIVE BarsOf(_, _)
BarsOf(S, q) ==
    IF S = {} THEN <<>>
    ELSE LET day == SetMin(S)
         IN  <<[date |-> day, open |-> q[day].open, high |-> q[day].high,
                low |-> q[day].low, close |-> q[day].close, volume |-> q[day].volume]>>
             \o BarsOf(S \ {day}, q)

\* The daily tables of at most MaxDaily bars on the days 1..MaxDay, and None.
DailyTables ==
    {[none |-> TRUE, bars |-> <<>>]}
    \cup UNION {{[none |-> FALSE, bars |-> BarsOf(S, q)] : q \in [S -> Quotes]} :
                 S \in {T \in SUBSET (1..MaxDay) : Cardinality(T) <= MaxDaily}}

\* C15: resampling the weekly bars once more gives the same weekly bars, and no
\* week without a daily bar is in the output: every weekly bar is dated at the
\* end of a week that holds a daily bar of the input.
C15_Idempotent ==
    /\ at = "twice" => ret.twice = ret.once
    /\ at \in {"once", "twice"} =>
          \A i \in 1..Len(ret.once.bars) :
              \E j \in 1..Len(arg.bars) : WeekEnd(arg.bars[j].date) = ret.once.bars[i].date

\* C15's case: two daily bars with an empty week between them, resampled twice.
C15_Witness ==
    /\ at = "twice"
    /\ Len(arg.bars) = 2
    /\ WeekEnd(arg.bars[2].date) - WeekEnd(arg.bars[1].date) > DaysPerWeek
    /\ Len(ret.twice.bars) = 2

\* ------------------------------------------------------------------ the daily series of one code
\* What ak.fund_etf_hist_sina does: it raises, returns None, or returns a table of
\* bars [date, close] in the upstream's order, dates possibly repeated.
RawResults ==
    {[res |-> "raise", bars |-> <<>>], [res |-> "none", bars |-> <<>>]}
    \cup {[res |-> "table", bars |-> b] :
            b \in UNION {[1..k -> [date : Dates, close : 1..NPrice]] : k \in 0..MaxRaw}}

\* get_etf_daily_kline_sina (lines 83-97): None for an exception or a None, the
\* empty table as it is, any other table sorted by date (line 94) and nothing
\* else done to its rows.
get_etf_daily_kline_sina(u) ==
    IF u.res # "table"
    THEN [none |-> TRUE, bars |-> <<>>]
    ELSE IF u.bars = <<>>
         THEN [none |-> FALSE, bars |-> <<>>]
         ELSE [none |-> FALSE, bars |-> sort_values(u.bars)]

\* The call of line 287.
FetchKline ==
    /\ at = "kline"
    /\ ret' = get_etf_daily_kline_sina(arg)
    /\ at' = "kline_done"
    /\ UNCHANGED <<arg, mergeVars, mergeHist, fetchVars, runVars>>

\* The last bar of date d in the upstream's order.
LastOf(bars, d) ==
    LET g == Group(bars, d) IN g[Len(g)]

\* C16: the bars returned are strictly ascending by date, and the bar kept for a
\* date is the last one the upstream gave for that date.
C16_StrictlyAscending ==
    (at = "kline_done" /\ ~ret.none) =>
        /\ \A i \in 1..(Len(ret.bars) - 1) : ret.bars[i].date < ret.bars[i + 1].date
        /\ \A i \in 1..Len(ret.bars) : ret.bars[i] = LastOf(arg.bars, ret.bars[i].date)
        /\ DatesOf(ret.bars) = DatesOf(arg.bars)

\* ------------------------------------------------------------------ claims C17, C18
\* C17: the dataset a merge wrote is sorted by date ascending, rows of equal date
\* in universe order (ascending code).
C17_UniverseOrder ==
    lastOk.some =>
        \A i \in 1..(Len(remote.rows) - 1) :
            \/ remote.rows[i].date < remote.rows[i + 1].date
            \/ /\ remote.rows[i].date = remote.rows[i + 1].date
               /\ remote.rows[i].code < remote.rows[i + 1].code

\* The emissions of the daily pool's tasks that report total/total.
FinalDaily ==
    {i \in 1..Len(log) : log[i].phase = "daily" /\ log[i].num * 100 = 55 * log[i].den}

\* C18: past the join of the daily pool the counter equals the number of
\* instruments, and the total/total emission of the phase was made exactly once.
C18_CounterIsTotal ==
    fpc \in {"weekly", "fees", "assemble", "done"} =>
        /\ completed_d = total
        /\ Cardinality(FinalDaily) = 1

\* ------------------------------------------------------------------ the local cache file
\* A call of save_to_csv(snap) (lines 402-421) on the local file.  ret is history:
\* the number of calls, the file before this call, and whether this call saves
\* the snapshot the call before it saved.
SaveSnapshot(snap) ==
    /\ at = "save"
    /\ ret.count < MaxSaves
    /\ local' = save_to_csv(local, snap)
    /\ arg' = snap
    /\ ret' = [count |-> ret.count + 1, prev |-> local,
               twice |-> ret.count > 0 /\ arg = snap]
    /\ UNCHANGED <<at, token, rkind, rpc, outcome, saved, loaded>>
    /\ UNCHANGED <<mergeVars, mergeHist, fetchVars>>

SaveNext == \E snap \in Snapshots : SaveSnapshot(snap)

\* C19: the local file holds at most one row per (instrument, date), and saving
\* the snapshot just saved leaves the file as it was.
C19_LocalOneRowPerKey ==
    at = "save" =>
        /\ OneRowPerKey(local.rows)
        /\ ret.twice => local = ret.prev

\* No merge is running.
MergeIdle ==
    /\ MergeInit
    /\ sortKind = "stable"

\* ------------------------------------------------------------------ specifications
Init == MergeInit /\ FetchIdle /\ RunIdle /\ CallIdle /\ token = TRUE

Next == MergeNext

Spec == Init /\ [][Next]_vars

FetchInit ==
    /\ MergeIdle
    /\ RunIdle
    /\ CallIdle
    /\ token = TRUE
    /\ FetchReady(NCodes)
    /\ preempts = 0
    /\ fpc = "start"
    /\ upstream \in [1..NCodes -> Upstreams]
    /\ cached \in SUBSET (1..NCodes)

SpecFetch == FetchInit /\ [][FetchNext]_vars

\* A run on a universe large enough for an emission before the last one, on an
\* interpreter that switches threads between statements only (no switch inside
\* an increment: the budget of such switches is spent).
ProgressInit ==
    /\ MergeIdle
    /\ RunIdle
    /\ CallIdle
    /\ token = TRUE
    /\ FetchReady(ProgressUniverse)
    /\ preempts = MaxPreempt
    /\ fpc = "start"
    /\ upstream = [c \in 1..ProgressUniverse |-> [res |-> "ok", date |-> Today]]
    /\ cached = 2..ProgressUniverse

SpecProgress == ProgressInit /\ [][FetchNext]_vars

\* The dataset of an earlier day: one row per code, of the first date.
History == SnapOf([c \in Codes |-> 1], 1)

\* A handler about to run on a fresh checkout: the remote absent or holding the
\* earlier day, no local file yet, the fee cache complete.
RunInit ==
    /\ remote \in {NoFile, [exists |-> TRUE, rows |-> History]}
    /\ MergeReady
    /\ sortKind = "stable"
    /\ FetchReady(NCodes)
    /\ preempts = 0
    /\ fpc = "idle"
    /\ upstream \in [1..NCodes -> Upstreams]
    /\ cached = 1..NCodes
    /\ token \in BOOLEAN
    /\ local = NoFile
    /\ rkind = "none"
    /\ rpc = "idle"
    /\ outcome = "none"
    /\ saved = FALSE
    /\ loaded = NoLoad
    /\ CallIdle

SpecRun == RunInit /\ [][RunNext]_vars

\* Nothing but the function called on its own.
Quiet == MergeIdle /\ FetchIdle /\ RunIdle /\ token = TRUE

IndicatorInit ==
    /\ Quiet
    /\ ret = <<>>
    /\ \/ at = "ma60" /\ arg \in DailyArgs
       \/ at = "macd" /\ arg \in WeeklyArgs

SpecIndicators == IndicatorInit /\ [][IndicatorNext]_vars

WeeklyInit ==
    /\ Quiet
    /\ ret = <<>>
    /\ at = "resample"
    /\ arg \in DailyTables

SpecWeekly == WeeklyInit /\ [][WeeklyNext]_vars

KlineInit ==
    /\ MergeInit
    /\ FetchIdle
    /\ RunIdle
    /\ token = TRUE
    /\ ret = <<>>
    /\ at = "kline"
    /\ arg \in RawResults

KlineNext == FetchKline

SpecKline == KlineInit /\ [][KlineNext]_vars

SaveInit ==
    /\ Quiet
    /\ arg = <<>>
    /\ ret = [count |-> 0, prev |-> NoFile, twice |-> FALSE]
    /\ at = "save"

SpecSave == SaveInit /\ [][SaveNext]_vars

====
